---- MODULE Spec2Model ----
(***************************************************************************)
(* Live audio sessions of EduVerse: the live tutor (AudioTranscriber) and  *)
(* the video deep dive (VideoProcessor).  One behaviour follows one        *)
(* mounted component instance; `surface` says which one.  Every call of    *)
(* startSession / startDeepDive is one entry of `sessions`: the async      *)
(* activation, the closures it hands to ai.live.connect, and the objects   *)
(* it creates (MediaStream, AudioContexts, processing nodes, connection).  *)
(* The refs of the component hold the index of the session whose object    *)
(* they point at, 0 for null.                                              *)
(***************************************************************************)
EXTENDS Integers, Sequences, FiniteSets, TLC

\* ---------------------------------------------------------------- bounds
MaxSessions == 2     \* calls of start per behaviour
MaxFrames == 1       \* microphone frames captured per behaviour
MaxSources == 2      \* audio chunks received per behaviour
MaxTime == 2         \* ticks of the audio clock
MaxDur == 2          \* longest audio fragment, in ticks
MaxMessages == 2     \* messages received per behaviour
MaxInserts == 12     \* history insertions per behaviour, stored ones included
MaxStored == 1       \* history items in localStorage when the component mounts
MaxPending == 2      \* analyses in flight at once
MaxAnalyses == 2     \* analyses per behaviour when the failures are told apart
MaxQuestions == 2    \* questions of a quiz
MaxAnswerLen == 1    \* characters of a typed answer
MaxOffset == 16      \* samples are taken this close to -1, 0 and 1
SubSteps == 2        \* sample values per 16-bit step
MaxTurnMessages == 3  \* messages of one conversation, in the specification of the turns

HistoryCap == 10     \* slice(0, 10)

Tutor == "tutor"
Dive == "dive"
Image == "image"

VARIABLES
    surface,                \* which component this behaviour follows
    mounted,                \* the component is mounted and its mount effects have run
    status,                 \* isSessionActive ("active"/"idle") or deepDiveStatus
    error,                  \* error / deepDiveError
    learningReport,         \* learningReport state: "none" or the tool-call arguments
    analysisResult,         \* analysisResult is set (video surface)
    quizScore,              \* quizScore is set (video surface)
    mediaStreamRef,
    outputAudioContextRef,
    inputAudioContextRef,
    scriptProcessorRef,     \* scriptProcessorRef and mediaStreamSourceRef (always set together)
    sessionPromiseRef,
    sessions,               \* one record per start call
    conversation,           \* conversation / deepDiveConversation
    history,                \* history state, when it holds an array
    storedHistory,          \* localStorage 'eduverse_*_history', when it holds an array
    nextStartTimeRef,
    audioSourcesRef,        \* the Set of AudioBufferSourceNodes, as indices of sources
    sources,                \* every AudioBufferSourceNode created so far
    decoding,               \* onmessage calls suspended in await decodeAudioData
    received,               \* number of messages received so far
    now,                    \* currentTime of the audio clock
    analysisStatus,         \* status (AppStatus) of VideoProcessor / ImageAnalyzer
    analysisError,          \* error of VideoProcessor / ImageAnalyzer: "none" or a code
    videoUrl,               \* videoUrl (imageUrlInput): "" or "url"
    historyKind,            \* what JSON value the history state holds
    storedKind,             \* what the localStorage entry of the history holds
    pending,                \* handleSubmit calls suspended in await, with their history
    inserted,               \* every item saveToHistory has created, oldest first
    cleared,                \* history: the items a clearHistory call has removed
    quiz,                   \* analysisResult.quiz: the canonical answers
    userAnswers,            \* userAnswers: question index -> typed text
    score,                  \* the number in quizScore, 0 while it is null
    inputData,              \* one microphone sample, in units of 1 / (32768 * SubSteps)
    int16                   \* the Int16Array element written for it

vars == <<surface, mounted, status, error, learningReport, analysisResult, quizScore,
          mediaStreamRef, outputAudioContextRef, inputAudioContextRef,
          scriptProcessorRef, sessionPromiseRef, sessions,
          conversation, history, storedHistory, nextStartTimeRef, audioSourcesRef,
          sources, decoding, received, now,
          analysisStatus, analysisError, videoUrl, historyKind, storedKind, pending,
          inserted, cleared, quiz, userAnswers, score, inputData, int16>>

\* The state of the live sessions, of the analyses, of the quiz and of the encoder.
sessionVars == <<mounted, status, error, learningReport, mediaStreamRef,
                 outputAudioContextRef, inputAudioContextRef, scriptProcessorRef,
                 sessionPromiseRef, sessions, conversation, nextStartTimeRef,
                 audioSourcesRef, sources, decoding, received, now>>
analysisVars == <<analysisStatus, analysisError, videoUrl, historyKind, storedKind,
                  pending, inserted, cleared>>
quizVars == <<quiz, userAnswers, quizScore, score>>
pcmVars == <<inputData, int16>>

\* The component as one record, so that handlers compose as functions.
Cur ==
    [surface |-> surface, mounted |-> mounted, status |-> status, error |-> error,
     learningReport |-> learningReport, analysisResult |-> analysisResult,
     quizScore |-> quizScore,
     mediaStreamRef |-> mediaStreamRef, outputAudioContextRef |-> outputAudioContextRef,
     inputAudioContextRef |-> inputAudioContextRef, scriptProcessorRef |-> scriptProcessorRef,
     sessionPromiseRef |-> sessionPromiseRef, sessions |-> sessions,
     conversation |-> conversation, history |-> history, storedHistory |-> storedHistory,
     nextStartTimeRef |-> nextStartTimeRef, audioSourcesRef |-> audioSourcesRef,
     sources |-> sources, decoding |-> decoding, received |-> received, now |-> now]

CommitSession(c) ==
    /\ surface' = c.surface
    /\ mounted' = c.mounted
    /\ status' = c.status
    /\ error' = c.error
    /\ learningReport' = c.learningReport
    /\ analysisResult' = c.analysisResult
    /\ quizScore' = c.quizScore
    /\ mediaStreamRef' = c.mediaStreamRef
    /\ outputAudioContextRef' = c.outputAudioContextRef
    /\ inputAudioContextRef' = c.inputAudioContextRef
    /\ scriptProcessorRef' = c.scriptProcessorRef
    /\ sessionPromiseRef' = c.sessionPromiseRef
    /\ sessions' = c.sessions
    /\ conversation' = c.conversation
    /\ history' = c.history
    /\ storedHistory' = c.storedHistory
    /\ nextStartTimeRef' = c.nextStartTimeRef
    /\ audioSourcesRef' = c.audioSourcesRef
    /\ sources' = c.sources
    /\ decoding' = c.decoding
    /\ received' = c.received
    /\ now' = c.now

Commit(c) == CommitSession(c) /\ UNCHANGED <<analysisVars, quiz, userAnswers, score, pcmVars>>

\* A state setter of an unmounted component does nothing.
SetStatus(c, v) == IF c.mounted THEN [c EXCEPT !.status = v] ELSE c
SetError(c, v) == IF c.mounted THEN [c EXCEPT !.error = v] ELSE c
SetLearningReport(c, v) == IF c.mounted THEN [c EXCEPT !.learningReport = v] ELSE c
SetConversation(c, v) == IF c.mounted THEN [c EXCEPT !.conversation = v] ELSE c
SetHistory(c, v) == IF c.mounted THEN [c EXCEPT !.history = v] ELSE c

Max(a, b) == IF a >= b THEN a ELSE b
Min(a, b) == IF a <= b THEN a ELSE b

NewSession(cl, conv, hist) ==
    [mic |-> "pending",      \* getUserMedia: pending / granted / denied
     conn |-> "none",        \* none / connecting / open / closing / closed
     stream |-> "none",      \* the MediaStream: none / live / stopped
     outCtx |-> "none",      \* output AudioContext: none / open / closed
     inCtx |-> "none",       \* input AudioContext: none / open / closed
     nodes |-> "none",       \* source + script processor: none / connected / disconnected
     thens |-> << >>,        \* callbacks waiting on the connect promise
     captured |-> 0,         \* frames delivered to onaudioprocess of this session
     sent |-> << >>,         \* frames passed to sendRealtimeInput of the open connection
     cancelled |-> FALSE,    \* history: stop() ran while this start was pending
     cl |-> cl,              \* deepDiveStatus captured by the closures of this call
     clConv |-> conv,        \* conversation captured by the closures of this call
     clHist |-> hist]        \* history captured by the closures of this call

\* ------------------------------------------------------------- teardown
\* getTracks().forEach(track => track.stop())
StopTracks(c) ==
    IF c.mediaStreamRef # 0
    THEN [c EXCEPT !.sessions[c.mediaStreamRef].stream = "stopped"]
    ELSE c

\* scriptProcessorRef.current.disconnect(); mediaStreamSourceRef.current.disconnect()
DisconnectNodes(c) ==
    IF c.scriptProcessorRef # 0
    THEN [c EXCEPT !.sessions[c.scriptProcessorRef].nodes = "disconnected"]
    ELSE c

\* close() on a context that is already closed is rejected with InvalidStateError.
CloseInputContext_unguarded(c) ==
    IF c.inputAudioContextRef # 0
    THEN [c EXCEPT !.sessions[c.inputAudioContextRef].inCtx =
                       IF @ = "closed" THEN "invalid" ELSE "closed"]
    ELSE c

CloseInputContext(c) ==
    IF c.inputAudioContextRef # 0 /\ c.sessions[c.inputAudioContextRef].inCtx # "closed"
    THEN [c EXCEPT !.sessions[c.inputAudioContextRef].inCtx = "closed"]
    ELSE c

CloseOutputContext(c) ==
    IF c.outputAudioContextRef # 0 /\ c.sessions[c.outputAudioContextRef].outCtx # "closed"
    THEN [c EXCEPT !.sessions[c.outputAudioContextRef].outCtx = "closed"]
    ELSE c

ReleaseResources_keepInput(c) == CloseOutputContext(DisconnectNodes(StopTracks(c)))

ReleaseResources(c) == CloseOutputContext(CloseInputContext(DisconnectNodes(StopTracks(c))))

\* AudioTranscriber.saveToHistory of the render that saw history hist
saveToHistory(c, conv, hist) ==
    IF conv = << >> THEN c
    ELSE LET updated == SubSeq(<<conv>> \o hist, 1, Min(HistoryCap, Len(hist) + 1))
         IN  [SetHistory(c, updated) EXCEPT !.storedHistory = updated]

\* The same handler, had it saved whenever its transcript is not empty, handle or no
\* handle, in front of the history of that moment.
handleSessionEnded_unguarded(c, s) ==
    LET r == ReleaseResources(c)
        h == IF r.sessions[s].clConv # << >>
             THEN saveToHistory(r, r.sessions[s].clConv, r.history)
             ELSE r
    IN  SetStatus([h EXCEPT !.sessionPromiseRef = 0], "idle")

\* AudioTranscriber.handleSessionEnded as created by the render that called
\* startSession for session s: conversation and history are that render's values.
handleSessionEnded(c, s) ==
    LET r == ReleaseResources(c)
        h == IF r.sessionPromiseRef # 0 /\ r.sessions[s].clConv # << >>
             THEN saveToHistory(r, r.sessions[s].clConv, r.sessions[s].clHist)
             ELSE r
    IN  SetStatus([h EXCEPT !.sessionPromiseRef = 0], "idle")

\* VideoProcessor.handleDeepDiveSessionEnded, memoised on deepDiveStatus: cl is the
\* deepDiveStatus of the render that created this instance of the callback.
\* The same, had the reference been discarded at once and nothing else been done.
handleDeepDiveSessionEnded_discardOnly(c, cl) ==
    LET r == [c EXCEPT !.sessionPromiseRef = 0]
    IN  IF cl # "complete" THEN SetStatus(r, "idle") ELSE r

handleDeepDiveSessionEnded(c, cl) ==
    LET r == [ReleaseResources(c) EXCEPT !.sessionPromiseRef = 0]
    IN  IF cl # "complete" THEN SetStatus(r, "idle") ELSE r

\* The callbacks registered with then(): session.close(), and session.sendRealtimeInput
\* of frame n captured by the processor of session from.
CloseCall == [op |-> "close", from |-> 0, n |-> 0]
SendCall(from, n) == [op |-> "send", from |-> from, n |-> n]

\* A close() is waiting on the connect promise of session s.
CloseQueued(c, s) == \E i \in 1..Len(c.sessions[s].thens) : c.sessions[s].thens[i].op = "close"

\* sessionPromiseRef.current.then(session => session.close()) on the promise of session s.
\* The promise is resolved once the connection is open; before that the callback waits.
\* Callbacks registered behind a waiting close() find the connection closing and do
\* nothing, so they are not recorded.
RequestClose(c, s) ==
    IF c.sessions[s].conn = "open"
    THEN [c EXCEPT !.sessions[s].conn = "closing"]
    ELSE IF c.sessions[s].conn = "connecting" /\ ~CloseQueued(c, s)
         THEN [c EXCEPT !.sessions[s].thens = Append(@, CloseCall)]
         ELSE c

\* AudioTranscriber.stopSession
stopSession(c) ==
    IF c.sessionPromiseRef # 0 THEN RequestClose(c, c.sessionPromiseRef) ELSE c

\* VideoProcessor.stopDeepDive
stopDeepDive(c, cl) ==
    handleDeepDiveSessionEnded(
        IF c.sessionPromiseRef # 0 THEN RequestClose(c, c.sessionPromiseRef) ELSE c, cl)

\* The effect of VideoProcessor whose dependency is stopDeepDive: when a render sees
\* another deepDiveStatus than the previous one, stopDeepDive is a new function and
\* the cleanup of the previous effect runs with the previous render's stopDeepDive.
Rendered(c, old) ==
    IF c.surface = Dive /\ c.mounted /\ c.status # old /\ c.sessionPromiseRef # 0
    THEN stopDeepDive(c, old)
    ELSE c

\* ---------------------------------------------------------------- Init
SessionsIdle ==
    /\ status = "idle"
    /\ error = "none"
    /\ learningReport = "none"
    /\ mediaStreamRef = 0
    /\ outputAudioContextRef = 0
    /\ inputAudioContextRef = 0
    /\ scriptProcessorRef = 0
    /\ sessionPromiseRef = 0
    /\ sessions = << >>
    /\ conversation = << >>
    /\ nextStartTimeRef = 0
    /\ audioSourcesRef = {}
    /\ sources = << >>
    /\ decoding = << >>
    /\ received = 0
    /\ now = 0

\* No analysis was made and nothing is stored.
AnalysisIdle ==
    /\ analysisStatus = "idle"
    /\ analysisError = "none"
    /\ videoUrl = ""
    /\ history = << >>
    /\ historyKind = "array"
    /\ storedHistory = << >>
    /\ storedKind = "absent"
    /\ pending = << >>
    /\ inserted = << >>
    /\ cleared = {}

QuizIdle ==
    /\ quiz = << >>
    /\ userAnswers = << >>
    /\ quizScore = FALSE
    /\ score = 0

EncoderIdle ==
    /\ inputData = 0
    /\ int16 = 0

Init ==
    /\ surface \in {Tutor, Dive}
    /\ mounted = TRUE
    /\ analysisResult = FALSE
    /\ SessionsIdle
    /\ AnalysisIdle
    /\ QuizIdle
    /\ EncoderIdle

Sessions == 1..Len(sessions)

\* -------------------------------------------------------- user actions
\* VideoProcessor.restoreFromHistory (and the success path of handleSubmit):
\* resetAnalysisState() followed by setAnalysisResult(result).
RestoreFromHistory ==
    /\ surface = Dive /\ mounted
    /\ Commit(Rendered([Cur EXCEPT !.analysisResult = TRUE, !.quizScore = FALSE,
                                   !.status = "idle", !.learningReport = "none",
                                   !.conversation = << >>], status))

\* The characters of an answer: an upper-case letter, its lower-case form, a blank.
Alphabet == {"A", "a", " "}
Answers == UNION {[1..k -> Alphabet] : k \in 0..MaxAnswerLen}

\* String.prototype.toLowerCase
toLowerCase(t) == [i \in 1..Len(t) |-> IF t[i] = "A" THEN "a" ELSE t[i]]

\* String.prototype.trim
RECURSIVE trimStart(_)
trimStart(t) == IF t # << >> /\ Head(t) = " " THEN trimStart(Tail(t)) ELSE t
RECURSIVE trimEnd(_)
trimEnd(t) ==
    IF t # << >> /\ t[Len(t)] = " " THEN trimEnd(SubSeq(t, 1, Len(t) - 1)) ELSE t
trim(t) == trimEnd(trimStart(t))

\* userAnswers[index] || ''
UserAnswer(ua, i) == IF i \in DOMAIN ua THEN ua[i] ELSE << >>

\* The same, compared as typed.
handleQuizSubmit_noTrim(q, ua) ==
    Cardinality({i \in 1..Len(q) : toLowerCase(UserAnswer(ua, i)) = toLowerCase(q[i])})

\* The score handleQuizSubmit counts over the questions q with the answers ua.
handleQuizSubmit(q, ua) ==
    Cardinality({i \in 1..Len(q) :
                    toLowerCase(trim(UserAnswer(ua, i))) = toLowerCase(trim(q[i]))})

\* VideoProcessor.handleQuizSubmit
HandleQuizSubmit ==
    /\ surface = Dive /\ mounted /\ analysisResult /\ ~quizScore
    /\ CommitSession([Cur EXCEPT !.quizScore = TRUE])
    /\ score' = handleQuizSubmit(quiz, userAnswers)
    /\ UNCHANGED <<analysisVars, quiz, userAnswers, pcmVars>>

\* An answer is chosen or typed: setUserAnswers(prev => ({...prev, [index]: value})).
\* The form is shown while quizScore is null.
SetUserAnswer(i, text) ==
    /\ surface = Dive /\ mounted /\ analysisResult /\ ~quizScore
    /\ i \in 1..Len(quiz)
    /\ userAnswers' = [k \in DOMAIN userAnswers \cup {i} |->
                          IF k = i THEN text ELSE userAnswers[k]]
    /\ UNCHANGED <<surface, sessionVars, analysisResult, history, storedHistory,
                   analysisVars, quiz, quizScore, score, pcmVars>>

\* VideoProcessor.handleRetakeQuiz
HandleRetakeQuiz ==
    /\ surface = Dive /\ mounted /\ analysisResult /\ quizScore
    /\ quizScore' = FALSE
    /\ score' = 0
    /\ userAnswers' = << >>
    /\ UNCHANGED <<surface, sessionVars, analysisResult, history, storedHistory,
                   analysisVars, quiz, pcmVars>>

\* AudioTranscriber.startSession up to the await of getUserMedia.
\* The button calls it only while isSessionActive is false.
StartSession ==
    /\ surface = Tutor /\ mounted /\ status = "idle"
    /\ Len(sessions) < MaxSessions
    /\ Commit([Cur EXCEPT !.error = "none", !.conversation = << >>, !.status = "active",
                          !.sessions = Append(@, NewSession(status, conversation, history))])

\* VideoProcessor.startDeepDive up to the await of getUserMedia.  Its buttons are
\* shown in 'idle' (enabled once the quiz is scored) and next to a finished report.
StartDeepDive ==
    /\ surface = Dive /\ mounted /\ analysisResult
    /\ \/ status = "idle" /\ quizScore
       \/ status = "complete" /\ learningReport # "none"
    /\ Len(sessions) < MaxSessions
    /\ Commit(Rendered([Cur EXCEPT !.error = "none", !.conversation = << >>,
                                   !.learningReport = "none", !.status = "active",
                                   !.sessions = Append(@, NewSession(status, conversation,
                                                                     history))], status))

\* History for the claims: stop() is called while these start calls are pending.
MarkCancelled(c) ==
    [c EXCEPT !.sessions = [s \in 1..Len(c.sessions) |->
        IF c.sessions[s].mic = "pending" \/ c.sessions[s].conn = "connecting"
        THEN [c.sessions[s] EXCEPT !.cancelled = TRUE] ELSE c.sessions[s]]]

\* The End Session button of the live tutor.
StopSessionFrom(c) ==
    /\ surface = Tutor /\ mounted /\ status = "active"
    /\ Commit(stopSession(c))

StopSession == StopSessionFrom(Cur)

\* The End Call button of the deep dive, shown while deepDiveStatus is 'active'.
StopDeepDiveFrom(c) ==
    /\ surface = Dive /\ mounted /\ analysisResult /\ status = "active"
    /\ Commit(Rendered(stopDeepDive(c, status), status))

StopDeepDive == StopDeepDiveFrom(Cur)

\* The same two buttons, recording which start calls were pending.
StopSessionWhilePending == StopSessionFrom(MarkCancelled(Cur))
StopDeepDiveWhilePending == StopDeepDiveFrom(MarkCancelled(Cur))

\* The component is removed from the page.  The tutor's cleanup was created by the
\* first render (dependency list []), where isSessionActive is false, so it never calls
\* stopSession; the deep dive's cleanup tests the ref.  Setters no longer change state.
Unmount ==
    /\ mounted
    /\ LET c == [Cur EXCEPT !.mounted = FALSE]
       IN  Commit(IF surface = Dive /\ sessionPromiseRef # 0 THEN stopDeepDive(c, status) ELSE c)

\* --------------------------------------------------- start, continued
StartFailed_noIdle(c) == SetError(c, "mic_permission")

\* catch (err) of startSession / startDeepDive
StartFailed(c) == SetStatus(SetError(c, "mic_permission"), "idle")

\* getUserMedia rejects.
MicDenied(s) ==
    /\ sessions[s].mic = "pending"
    /\ Commit(Rendered(StartFailed([Cur EXCEPT !.sessions[s].mic = "denied"]), status))

\* getUserMedia resolves and the rest of the try block runs.
MicGranted(s) ==
    /\ sessions[s].mic = "pending"
    /\ Commit([Cur EXCEPT !.sessions[s].mic = "granted",
                          !.sessions[s].stream = "live",
                          !.mediaStreamRef = s,
                          !.sessions[s].outCtx = "open",
                          !.outputAudioContextRef = s,
                          !.nextStartTimeRef = 0,
                          !.audioSourcesRef = {},
                          !.sessions[s].conn = "connecting",
                          !.sessionPromiseRef = s])

\* The same, had ai.live.connect been called before the AudioContext is constructed.
MicGrantedContextFails_connectFirst(s) ==
    /\ sessions[s].mic = "pending"
    /\ Commit(Rendered(StartFailed([Cur EXCEPT !.sessions[s].mic = "granted",
                                               !.sessions[s].stream = "live",
                                               !.mediaStreamRef = s,
                                               !.sessions[s].conn = "connecting",
                                               !.sessionPromiseRef = s]), status))

\* getUserMedia resolves and the AudioContext constructor throws
\* (no Web Audio, or the 24000 Hz rate is not supported): the catch block runs.
MicGrantedContextFails(s) ==
    /\ sessions[s].mic = "pending"
    /\ Commit(Rendered(StartFailed([Cur EXCEPT !.sessions[s].mic = "granted",
                                               !.sessions[s].stream = "live",
                                               !.mediaStreamRef = s]), status))

\* ------------------------------------------------ connection callbacks
\* A callback registered with then() on the connect promise of session s runs.
RECURSIVE RunThens(_, _, _)
RunThens(c, s, q) ==
    IF q = << >> THEN c
    ELSE LET c1 == IF Head(q).op = "close"
                   THEN (IF c.sessions[s].conn = "open"
                         THEN [c EXCEPT !.sessions[s].conn = "closing"] ELSE c)
                   ELSE (IF c.sessions[s].conn = "open"
                         THEN [c EXCEPT !.sessions[s].sent =
                                            Append(@, [from |-> Head(q).from, n |-> Head(q).n])]
                         ELSE c)
         IN  RunThens(c1, s, Tail(q))

\* callbacks.onopen of session s, then the connect promise resolves.
OnOpen(s) ==
    /\ sessions[s].conn = "connecting"
    /\ LET c1 == [Cur EXCEPT !.sessions[s].conn = "open",
                             !.sessions[s].inCtx = "open",
                             !.inputAudioContextRef = s,
                             !.sessions[s].nodes = "connected",
                             !.scriptProcessorRef = s]
       IN  Commit(RunThens([c1 EXCEPT !.sessions[s].thens = << >>], s, sessions[s].thens))

\* Frames captured by the processor of session t so far.
FramesOf(t) == sessions[t].captured

RECURSIVE FramesUpTo(_)
FramesUpTo(n) == IF n = 0 THEN 0 ELSE FramesOf(n) + FramesUpTo(n - 1)

\* scriptProcessor.onaudioprocess of session s: one 4096-sample frame is encoded and
\* handed to the promise that sessionPromiseRef holds at that moment.  With a null ref
\* the handler of the tutor throws and the one of the deep dive skips the call; a
\* frame passed to a connection that is closing or closed is discarded.
OnAudioProcess(s) ==
    /\ sessions[s].nodes = "connected" /\ sessions[s].inCtx = "open"
    /\ FramesUpTo(Len(sessions)) < MaxFrames
    /\ LET t == sessionPromiseRef
           n == sessions[s].captured + 1
           c == [Cur EXCEPT !.sessions[s].captured = n]
       IN  Commit(IF t = 0 THEN c
                  ELSE IF sessions[t].conn = "open"
                  THEN [c EXCEPT !.sessions[t].sent = Append(@, [from |-> s, n |-> n])]
                  ELSE IF sessions[t].conn = "connecting" /\ ~CloseQueued(Cur, t)
                  THEN [c EXCEPT !.sessions[t].thens = Append(@, SendCall(s, n))]
                  ELSE c)

\* ------------------------------------------------------------ messages
\* A LiveServerMessage: the fields the handlers read.
Texts == {<<"a">>, <<"b">>}
Durs == 1..MaxDur
NoMessage ==
    [hasInput |-> FALSE, input |-> << >>, hasOutput |-> FALSE, output |-> << >>,
     audio |-> 0, interrupted |-> FALSE, turnComplete |-> FALSE, tool |-> "none"]

AppendTurn_alwaysMerge(prev, speaker, text) ==
    IF prev # << >>
    THEN [prev EXCEPT ![Len(prev)].text = @ \o text]
    ELSE Append(prev, [speaker |-> speaker, text |-> text, isFinal |-> FALSE])

\* The updater passed to setConversation by the live tutor.
AppendTurn(prev, speaker, text) ==
    IF prev # << >> /\ prev[Len(prev)].speaker = speaker /\ ~prev[Len(prev)].isFinal
    THEN [prev EXCEPT ![Len(prev)].text = @ \o text]
    ELSE Append(prev, [speaker |-> speaker, text |-> text, isFinal |-> FALSE])

\* The updaters passed to setDeepDiveConversation: the turns carry no isFinal.
AppendDeepDiveTurn(prev, speaker, text) ==
    IF prev # << >> /\ prev[Len(prev)].speaker = speaker
    THEN [prev EXCEPT ![Len(prev)].text = @ \o text]
    ELSE Append(prev, [speaker |-> speaker, text |-> text, isFinal |-> FALSE])

\* onmessage, the transcription part.
OnTranscription(c, m) ==
    IF c.surface = Tutor
    THEN IF m.hasInput \/ m.hasOutput
         THEN LET isInput == m.hasInput
              IN  SetConversation(c, AppendTurn(c.conversation,
                                                IF isInput THEN "user" ELSE "model",
                                                IF isInput THEN m.input ELSE m.output))
         ELSE c
    ELSE LET c1 == IF m.hasInput
                   THEN SetConversation(c, AppendDeepDiveTurn(c.conversation, "user", m.input))
                   ELSE c
         IN  IF m.hasOutput
             THEN SetConversation(c1, AppendDeepDiveTurn(c1.conversation, "model", m.output))
             ELSE c1

StopSources_none(srcs, set) == srcs

\* s.stop() for every source in the set
StopSources(srcs, set) ==
    [i \in 1..Len(srcs) |->
        IF i \in set /\ srcs[i].state = "scheduled"
        THEN [srcs[i] EXCEPT !.state = "stopped"] ELSE srcs[i]]

OnInterrupted_toNow(c, m) ==
    IF c.surface = Tutor /\ m.interrupted
    THEN [c EXCEPT !.sources = StopSources(c.sources, c.audioSourcesRef),
                   !.audioSourcesRef = {},
                   !.nextStartTimeRef = Min(@, c.now)]
    ELSE c

\* onmessage of the live tutor, the interrupted part.
OnInterrupted(c, m) ==
    IF c.surface = Tutor /\ m.interrupted
    THEN [c EXCEPT !.sources = StopSources(c.sources, c.audioSourcesRef),
                   !.audioSourcesRef = {},
                   !.nextStartTimeRef = 0]
    ELSE c

\* onmessage of the live tutor, the turnComplete part.
OnTurnComplete(c, m) ==
    IF c.surface = Tutor /\ m.turnComplete
    THEN SetConversation(c, [i \in 1..Len(c.conversation) |->
                                [c.conversation[i] EXCEPT !.isFinal = TRUE]])
    ELSE c

\* onmessage of the deep dive, the tool call part; cl is the deepDiveStatus seen by
\* the stopDeepDive of the render that started the session.
OnToolCall(c, m, cl) ==
    IF c.surface = Dive /\ m.tool = "report"
    THEN stopDeepDive(SetStatus(SetLearningReport(c, "args"), "complete"), cl)
    ELSE c

\* onmessage after the audio part.
AfterAudio(c, s, m) ==
    OnToolCall(OnTurnComplete(OnInterrupted(c, m), m), m, c.sessions[s].cl)

\* onmessage up to await decodeAudioData, or to its end when the message has no audio.
\* The suspended calls are kept in the order in which their messages were received.
onmessage(c, s, m) ==
    LET c1 == OnTranscription(c, m)
    IN  IF m.audio # 0 /\ c1.outputAudioContextRef # 0
        THEN [c1 EXCEPT !.nextStartTimeRef = Max(@, c1.now),
                        !.decoding = Append(@, [s |-> s, ctx |-> c1.outputAudioContextRef,
                                                m |-> m])]
        ELSE AfterAudio(c1, s, m)

\* onmessage from the end of await decodeAudioData: the source is created and started.
\* source.start(when) with when earlier than currentTime starts to play at once.
\* createBufferSource ... source.start(nextStartTimeRef.current)
startSource(c, d) ==
    LET src == [start |-> c.nextStartTimeRef, begin |-> Max(c.nextStartTimeRef, c.now),
                dur |-> d.m.audio, state |-> "scheduled", ctx |-> d.ctx]
    IN  [c EXCEPT !.sources = Append(@, src)]

\* audioSourcesRef.current.add(source), for the source created last
registerSource(c) == [c EXCEPT !.audioSourcesRef = @ \cup {Len(c.sources)}]

afterDecode(c, d) ==
    LET c1 == startSource(c, d)
        c2 == [c1 EXCEPT !.nextStartTimeRef = @ + d.m.audio]
        c3 == registerSource(c2)
    IN  AfterAudio(c3, d.s, d.m)

RemoveAt(q, i) == SubSeq(q, 1, i - 1) \o SubSeq(q, i + 1, Len(q))

\* Messages of the lifecycle specification: tool calls and control signals.
LifecycleMessages ==
    {[NoMessage EXCEPT !.tool = t] : t \in {"report", "reportNoArgs", "other"}}
    \cup {[NoMessage EXCEPT !.interrupted = TRUE], [NoMessage EXCEPT !.turnComplete = TRUE]}

\* Messages of the playback specification: audio chunks and interruptions.
PlaybackMessages ==
    {[NoMessage EXCEPT !.audio = d] : d \in Durs}
    \cup {[NoMessage EXCEPT !.interrupted = TRUE],
          [NoMessage EXCEPT !.audio = 1, !.interrupted = TRUE]}

\* Messages of the transcript specification: transcription fragments of either
\* speaker, one message carrying both, and the turn-complete signal.
TranscriptMessages ==
    {[NoMessage EXCEPT !.hasInput = TRUE, !.input = t] : t \in Texts}
    \cup {[NoMessage EXCEPT !.hasOutput = TRUE, !.output = t] : t \in Texts}
    \cup {[NoMessage EXCEPT !.hasInput = TRUE, !.input = <<"a">>,
                            !.hasOutput = TRUE, !.output = <<"b">>],
          [NoMessage EXCEPT !.turnComplete = TRUE]}

\* callbacks.onmessage of session s is called with message m.
OnMessage(s, m) ==
    /\ sessions[s].conn = "open"
    /\ m.audio # 0 => Len(sources) + Len(decoding) < MaxSources
    /\ received < MaxMessages
    /\ Commit(Rendered(onmessage([Cur EXCEPT !.received = @ + 1], s, m), status))

\* Messages of the late-message specification.
LateMessages ==
    {[NoMessage EXCEPT !.hasInput = TRUE, !.input = <<"a">>],
     [NoMessage EXCEPT !.tool = "report"],
     [NoMessage EXCEPT !.audio = 1]}

\* callbacks.onmessage of session s is called after close() was called on it and
\* before the connection is closed: the message was received while the connection
\* was open and its payload was still being read.
OnLateMessage(s, m) ==
    /\ sessions[s].conn = "closing"
    /\ m.audio # 0 => Len(sources) + Len(decoding) < MaxSources
    /\ received < MaxMessages
    /\ Commit(Rendered(onmessage([Cur EXCEPT !.received = @ + 1], s, m), status))

\* decodeAudioData of the i-th suspended onmessage call resolves.
DecodeDone(i) ==
    /\ i \in 1..Len(decoding)
    /\ Commit(Rendered(afterDecode([Cur EXCEPT !.decoding = RemoveAt(@, i)], decoding[i]),
                       status))

\* The audio clock advances.
Tick ==
    /\ now < MaxTime
    /\ Commit([Cur EXCEPT !.now = @ + 1])

\* Source i has played to its end, or was stopped: its 'ended' listener runs.
SourceEnded(i) ==
    /\ i \in 1..Len(sources)
    /\ \/ sources[i].state = "scheduled" /\ now >= sources[i].begin + sources[i].dur
       \/ sources[i].state = "stopped"
    /\ Commit([Cur EXCEPT !.sources[i].state = "ended",
                          !.audioSourcesRef = @ \ {i}])

\* callbacks.onclose of session s
onclose(c, s) ==
    IF c.surface = Tutor THEN handleSessionEnded(c, s)
    ELSE handleDeepDiveSessionEnded(c, c.sessions[s].cl)

\* callbacks.onerror of session s
onerror(c, s) ==
    IF c.surface = Tutor THEN handleSessionEnded(SetError(c, "session_interrupted"), s)
    ELSE stopDeepDive(SetError(c, "session_interrupted"), c.sessions[s].cl)

\* The connection of session s is closed, by the client's close() or by the remote.
OnClose(s) ==
    /\ sessions[s].conn \in {"open", "closing"}
    /\ Commit(Rendered(onclose([Cur EXCEPT !.sessions[s].conn = "closed"], s), status))

\* The transport of session s fails: the socket is closed and the browser fires
\* error and then close in the same task.
OnError(s) ==
    /\ sessions[s].conn \in {"connecting", "open", "closing"}
    /\ Commit(Rendered(onclose(onerror([Cur EXCEPT !.sessions[s].conn = "closed"], s), s),
                       status))

\* Every step but the two stop buttons and the microphone frames.
NextButStop ==
    \/ RestoreFromHistory
    \/ HandleQuizSubmit
    \/ StartSession
    \/ StartDeepDive
    \/ Unmount
    \/ \E s \in Sessions : MicDenied(s)
    \/ \E s \in Sessions : MicGranted(s)
    \/ \E s \in Sessions : MicGrantedContextFails(s)
    \/ \E s \in Sessions : OnOpen(s)
    \/ \E s \in Sessions : \E m \in LifecycleMessages : OnMessage(s, m)
    \/ \E s \in Sessions : OnClose(s)
    \/ \E s \in Sessions : OnError(s)

Next ==
    \/ StopSession
    \/ StopDeepDive
    \/ NextButStop

Spec == Init /\ [][Next]_vars

\* The same program, with the history of which start calls a stop() found pending.
NextCancel ==
    \/ StopSessionWhilePending
    \/ StopDeepDiveWhilePending
    \/ NextButStop
    \/ \E s \in Sessions : OnAudioProcess(s)

SpecCancel == Init /\ [][NextCancel]_vars

\* The first session on either surface, its audio chunks, interruptions and the clock.
NextPlayback ==
    \/ sessions = << >> /\ RestoreFromHistory
    \/ sessions = << >> /\ HandleQuizSubmit
    \/ sessions = << >> /\ StartSession
    \/ sessions = << >> /\ StartDeepDive
    \/ \E s \in Sessions : MicGranted(s)
    \/ \E s \in Sessions : OnOpen(s)
    \/ \E s \in Sessions : \E m \in PlaybackMessages : OnMessage(s, m)
    \/ \E i \in 1..Len(decoding) : DecodeDone(i)
    \/ \E i \in 1..Len(sources) : SourceEnded(i)
    \/ Tick

SpecPlayback == Init /\ [][NextPlayback]_vars

\* The first session on either surface and the transcript it assembles.
NextTranscript ==
    \/ sessions = << >> /\ RestoreFromHistory
    \/ sessions = << >> /\ HandleQuizSubmit
    \/ sessions = << >> /\ StartSession
    \/ sessions = << >> /\ StartDeepDive
    \/ \E s \in Sessions : MicGranted(s)
    \/ \E s \in Sessions : OnOpen(s)
    \/ \E s \in Sessions : \E m \in TranscriptMessages : OnMessage(s, m)
    \/ \E s \in Sessions : OnClose(s)

SpecTranscript == Init /\ [][NextTranscript]_vars

\* The lifecycle, with the microphone frames of every connected processor.
NextFrames ==
    \/ Next
    \/ \E s \in Sessions : OnAudioProcess(s)

SpecFrames == Init /\ [][NextFrames]_vars

\* The lifecycle, with messages delivered after close() was requested.
NextLate ==
    \/ Next
    \/ \E s \in Sessions : \E m \in LateMessages : OnLateMessage(s, m)
    \/ \E i \in 1..Len(decoding) : DecodeDone(i)

SpecLate == Init /\ [][NextLate]_vars

\* The playback of a session that ends and of the session started after it.
NextRestart ==
    \/ NextPlayback
    \/ StartSession
    \/ StartDeepDive
    \/ \E s \in Sessions : OnClose(s)

SpecRestart == Init /\ [][NextRestart]_vars

\* callbacks.onmessage of session s is called with message m, in a conversation of
\* up to MaxTurnMessages messages.
OnTurnMessage(s, m) ==
    /\ sessions[s].conn = "open"
    /\ received < MaxTurnMessages
    /\ Commit(Rendered(onmessage([Cur EXCEPT !.received = @ + 1], s, m), status))

\* The first session on either surface and a longer transcript: fragments before
\* and after a turn-complete signal.
NextTurns ==
    \/ sessions = << >> /\ RestoreFromHistory
    \/ sessions = << >> /\ HandleQuizSubmit
    \/ sessions = << >> /\ StartSession
    \/ sessions = << >> /\ StartDeepDive
    \/ \E s \in Sessions : MicGranted(s)
    \/ \E s \in Sessions : OnOpen(s)
    \/ \E s \in Sessions : \E m \in TranscriptMessages : OnTurnMessage(s, m)

SpecTurns == Init /\ [][NextTurns]_vars

\* Sessions that follow one another on a surface, with their transcripts, their
\* close and error callbacks and what the live tutor saves when a session ends.
NextSaved ==
    \/ NextTranscript
    \/ StartSession
    \/ StartDeepDive
    \/ \E s \in Sessions : OnError(s)

SpecSaved == Init /\ [][NextSaved]_vars

\* ------------------------------------------- analyses and their history
\* VideoProcessor and ImageAnalyzer: the URL input, handleSubmit with its awaits, and
\* the history of analyses kept in state and in localStorage.

\* The keys of errorDetails in VideoProcessor.
errorDetails ==
    {"timeout", "cors", "extract_frames", "invalid_duration", "invalid_url_format",
     "generic_analysis", "mic_permission", "session_interrupted"}

\* What the stored entry can hold: nothing, an array written by saveToHistory, text
\* that JSON.parse rejects, or JSON of another kind.
StoredKinds == {"absent", "array", "unparseable", "object", "null"}

\* The mount effect: getItem, JSON.parse inside try/catch, setHistory of the result.
LoadHistory(kind, stored) ==
    IF kind \in {"absent", "unparseable"} THEN [history |-> << >>, kind |-> "array"]
    ELSE IF kind = "array" THEN [history |-> stored, kind |-> "array"]
    ELSE [history |-> << >>, kind |-> kind]

Reverse(q) == [i \in 1..Len(q) |-> q[Len(q) + 1 - i]]

\* VideoProcessor or ImageAnalyzer after its first render, with what localStorage
\* holds.  Items are numbered in the order saveToHistory created them.
InitAnalysis ==
    /\ surface \in {Dive, Image}
    /\ mounted = FALSE
    /\ analysisResult = FALSE
    /\ SessionsIdle
    /\ QuizIdle
    /\ EncoderIdle
    /\ analysisStatus = "idle"
    /\ analysisError = "none"
    /\ videoUrl = ""
    /\ pending = << >>
    /\ storedKind \in StoredKinds
    /\ \E k \in 0..MaxStored :
          inserted = IF storedKind = "array" THEN [i \in 1..k |-> i] ELSE << >>
    /\ storedHistory = Reverse(inserted)
    /\ history = << >>
    /\ historyKind = "array"
    /\ cleared = {}

\* The mount effect runs, before any handler can.
MountEffect ==
    /\ surface \in {Dive, Image} /\ ~mounted
    /\ mounted' = TRUE
    /\ history' = LoadHistory(storedKind, storedHistory).history
    /\ historyKind' = LoadHistory(storedKind, storedHistory).kind
    /\ UNCHANGED <<surface, status, error, learningReport, mediaStreamRef,
                   outputAudioContextRef, inputAudioContextRef, scriptProcessorRef,
                   sessionPromiseRef, sessions, conversation, nextStartTimeRef,
                   audioSourcesRef, sources, decoding, received, now,
                   analysisResult, quizVars, pcmVars, storedHistory, analysisStatus,
                   analysisError, videoUrl, storedKind, pending, inserted, cleared>>

\* What is typed into the URL box: nothing, a link to a video platform, a link
\* without a media extension, a direct link to a media file.
UrlInputs == {"", "platform", "page", "media"}

\* handleUrlInputChange.  The input is disabled while an analysis is processing.
HandleUrlInputChange(url) ==
    /\ surface \in {Dive, Image} /\ mounted
    /\ analysisStatus # "processing"
    /\ IF surface = Dive
       THEN /\ analysisResult' = FALSE
            /\ analysisError' = IF url = "platform" THEN "platform_link"
                                ELSE IF url = "page" THEN "invalid_url_format"
                                ELSE "none"
            /\ videoUrl' = IF url = "media" THEN "url" ELSE ""
       ELSE /\ analysisResult' = analysisResult
            /\ analysisError' = "none"
            /\ videoUrl' = IF url = "" THEN "" ELSE "url"
    /\ UNCHANGED <<surface, sessionVars, quizVars, pcmVars, history, storedHistory,
                   analysisStatus, historyKind, storedKind, pending, inserted, cleared>>

\* handleSubmit up to its first await.  saveToHistory of this call is the one of the
\* render that created the call: it reads that render's history.
HandleSubmit ==
    /\ surface \in {Dive, Image} /\ mounted
    /\ videoUrl # "" /\ analysisStatus # "processing"
    /\ surface = Dive => analysisError = "none"
    /\ Len(pending) < MaxPending
    /\ Len(inserted) + Len(pending) < MaxInserts
    /\ analysisStatus' = "processing"
    /\ analysisError' = "none"
    /\ analysisResult' = FALSE
    /\ pending' = Append(pending, [history |-> history, kind |-> historyKind])
    /\ UNCHANGED <<surface, sessionVars, quizVars, pcmVars, history, storedHistory,
                   videoUrl, historyKind, storedKind, inserted, cleared>>

\* [newItem, ...history].slice(0, 10)
Updated(item, hist) == SubSeq(<<item>> \o hist, 1, Min(HistoryCap, Len(hist) + 1))

\* The analysis of the i-th suspended handleSubmit resolves: the result is set and
\* saveToHistory runs.  Spreading a history that is not iterable throws inside the
\* try block, and the catch reports generic_analysis.
AnalysisDone(i) ==
    /\ i \in 1..Len(pending)
    /\ pending' = RemoveAt(pending, i)
    /\ analysisResult' = (surface = Dive)
    /\ IF pending[i].kind = "array"
       THEN /\ history' = Updated(Len(inserted) + 1, pending[i].history)
            /\ historyKind' = "array"
            /\ storedHistory' = history'
            /\ storedKind' = "array"
            /\ inserted' = Append(inserted, Len(inserted) + 1)
            /\ analysisStatus' = "success"
            /\ analysisError' = analysisError
       ELSE /\ analysisStatus' = "error"
            /\ analysisError' = "generic_analysis"
            /\ UNCHANGED <<history, historyKind, storedHistory, storedKind, inserted>>
    /\ UNCHANGED <<surface, sessionVars, quizVars, pcmVars, videoUrl, cleared>>

\* The phrases the catch block looks for in the message of the error.
Phrases ==
    IF surface = Dive THEN {"timed out", "CORS", "extract frames", "invalid duration"}
    ELSE {"Network", "CORS", "Invalid image"}

\* The catch block of handleSubmit, for an error whose message includes msg.
classify(msg) ==
    IF surface = Dive
    THEN IF "timed out" \in msg THEN "timeout"
         ELSE IF "CORS" \in msg THEN "cors"
         ELSE IF "extract frames" \in msg THEN "extract_frames"
         ELSE IF "invalid duration" \in msg THEN "invalid_duration"
         ELSE "generic_analysis"
    ELSE IF "Network" \in msg \/ "CORS" \in msg THEN "cors"
         ELSE IF "Invalid image" \in msg THEN "invalid_image_url"
         ELSE "generic_analysis"

\* An await of the i-th suspended handleSubmit rejects with an error whose message
\* includes the phrases msg.
AnalysisFailed(i, msg) ==
    /\ i \in 1..Len(pending)
    /\ pending' = RemoveAt(pending, i)
    /\ analysisError' = classify(msg)
    /\ analysisStatus' = "error"
    /\ UNCHANGED <<surface, sessionVars, quizVars, pcmVars, history, storedHistory,
                   analysisResult, videoUrl, historyKind, storedKind, inserted, cleared>>

\* restoreFromHistory of an item of the history list, which is shown whatever the
\* status is.
RestoreItem ==
    /\ surface \in {Dive, Image} /\ mounted
    /\ historyKind = "array" /\ history # << >>
    /\ analysisStatus' = "success"
    /\ analysisResult' = (surface = Dive)
    /\ videoUrl' = IF surface = Dive THEN "" ELSE videoUrl
    /\ UNCHANGED <<surface, sessionVars, quizVars, pcmVars, history, storedHistory,
                   analysisError, historyKind, storedKind, pending, inserted, cleared>>

Range(q) == {q[i] : i \in 1..Len(q)}

\* clearHistory: setHistory([]) and localStorage.removeItem.  Its button is in the
\* history panel, which opens whatever the status is and renders while the history
\* is a list.
ClearHistory ==
    /\ surface \in {Dive, Image} /\ mounted
    /\ historyKind = "array"
    /\ history' = << >>
    /\ storedHistory' = << >>
    /\ storedKind' = "absent"
    /\ cleared' = cleared \cup Range(history) \cup Range(storedHistory)
    /\ UNCHANGED <<surface, sessionVars, quizVars, pcmVars, analysisResult, analysisStatus,
                   analysisError, videoUrl, historyKind, pending, inserted>>

\* The analyses of a surface and its history: a media link is entered, analyses are
\* submitted, complete or fail, and items of the history are restored.
NextHistory ==
    \/ MountEffect
    \/ HandleUrlInputChange("media")
    \/ HandleSubmit
    \/ \E i \in 1..MaxPending : AnalysisDone(i)
    \/ \E i \in 1..MaxPending : AnalysisFailed(i, {})
    \/ RestoreItem

SpecHistory == InitAnalysis /\ [][NextHistory]_vars

\* The first analyses of a surface, with every input of the URL box and every
\* failure the catch block tells apart.
NextAnalysis ==
    \/ MountEffect
    \/ \E url \in UrlInputs : HandleUrlInputChange(url)
    \/ Len(inserted) + Len(pending) < MaxAnalyses /\ HandleSubmit
    \/ \E i \in 1..MaxPending : AnalysisDone(i)
    \/ \E i \in 1..MaxPending : \E msg \in SUBSET Phrases : AnalysisFailed(i, msg)
    \/ RestoreItem

SpecAnalysis == InitAnalysis /\ [][NextAnalysis]_vars

\* The same analyses, with the button that clears the history.
NextClear ==
    \/ NextAnalysis
    \/ ClearHistory

SpecClear == InitAnalysis /\ [][NextClear]_vars

\* ------------------------------------------------------------- the quiz
\* The canonical answers of the quizzes: no text, a letter, and an upper-case letter
\* followed by a blank.
Canonical == {<< >>, <<"a">>, <<"A", " ">>}

\* The video surface with an analysis result whose quiz is not yet answered.
InitQuiz ==
    /\ surface = Dive
    /\ mounted = TRUE
    /\ analysisResult = TRUE
    /\ SessionsIdle
    /\ AnalysisIdle
    /\ EncoderIdle
    /\ \E n \in 1..MaxQuestions : quiz \in [1..n -> Canonical]
    /\ userAnswers = << >>
    /\ quizScore = FALSE
    /\ score = 0

NextQuiz ==
    \/ \E i \in 1..MaxQuestions : \E text \in Answers : SetUserAnswer(i, text)
    \/ HandleQuizSubmit
    \/ HandleRetakeQuiz

SpecQuiz == InitQuiz /\ [][NextQuiz]_vars

\* ---------------------------------------------------------- the encoder
\* The loop of onaudioprocess for one sample: int16[i] = inputData[i] * 32768, where
\* int16 is an Int16Array.  A sample s is held as the integer s * FullScale * SubSteps.
FullScale == 32768

\* The samples next to -1, 0 and 1.
Samples ==
    (-MaxOffset..MaxOffset)
    \cup {FullScale * SubSteps - d : d \in 0..MaxOffset}
    \cup {d - FullScale * SubSteps : d \in 0..MaxOffset}

\* The integer part of inputData[i] * 32768, as the typed array takes it (toward zero).
Truncate(k) == IF k >= 0 THEN k \div SubSteps ELSE -((-k) \div SubSteps)

\* The 16-bit two's complement value an Int16Array element keeps of the integer v.
ToInt16(v) ==
    LET m == v % 65536
    IN  IF m >= 32768 THEN m - 65536 ELSE m

InitEncoder ==
    /\ surface \in {Tutor, Dive}
    /\ mounted = TRUE
    /\ analysisResult = FALSE
    /\ SessionsIdle
    /\ AnalysisIdle
    /\ QuizIdle
    /\ EncoderIdle

\* onaudioprocess encodes the sample k of its input buffer.
EncodeSample(k) ==
    /\ inputData' = k
    /\ int16' = ToInt16(Truncate(k))
    /\ UNCHANGED <<surface, sessionVars, analysisResult, history, storedHistory,
                   analysisVars, quizVars>>

NextEncoder == \E k \in Samples : EncodeSample(k)

SpecEncoder == InitEncoder /\ [][NextEncoder]_vars

TypeOK ==
    /\ surface \in {Tutor, Dive, Image}
    /\ status \in {"idle", "active", "complete"}
    /\ Len(sessions) <= MaxSessions
\* ============================================================== claims
LiveConnection(s) == sessions[s].conn \in {"connecting", "open"}
LiveStream(s) == sessions[s].stream = "live"

\* Session s holds no local resource.
Released(ss, s) ==
    /\ ss[s].stream # "live"
    /\ ss[s].nodes # "connected"
    /\ ss[s].inCtx # "open"
    /\ ss[s].outCtx # "open"

\* close() has been requested on the connection of session s.
CloseRequested(ss, s) ==
    \/ ss[s].conn \in {"closing", "closed"}
    \/ \E i \in 1..Len(ss[s].thens) : ss[s].thens[i].op = "close"

\* C1: at most one live session per surface: never more than one pending or open
\* connection and never more than one live microphone stream.
C1_AtMostOneLiveSession ==
    /\ Cardinality({s \in Sessions : LiveConnection(s)}) <= 1
    /\ Cardinality({s \in Sessions : LiveStream(s)}) <= 1

\* C2: stop() on a connecting or open session requests the remote close and, before
\* it returns, releases every local resource, discards the handle and reaches IDLE.
C2_StopTearsDown ==
    [][((StopSession \/ StopDeepDive) /\ sessionPromiseRef # 0
            /\ LiveConnection(sessionPromiseRef))
        => /\ CloseRequested(sessions', sessionPromiseRef)
           /\ Released(sessions', sessionPromiseRef)
           /\ sessionPromiseRef' = 0
           /\ status' = "idle"]_vars

\* C3: whenever the session state is IDLE, no microphone track is live, no audio
\* context is open, no processing node is connected, and no session handle or live
\* connection exists.
C3_IdleHoldsNoResource ==
    (mounted /\ status = "idle")
        => /\ sessionPromiseRef = 0
           /\ \A s \in Sessions : Released(sessions, s) /\ ~LiveConnection(s)

\* C4: when stop() ran while a start was pending, that start stays a no-op: no live
\* microphone stream, no input audio context, no processing node, no frame sent, and
\* the state stays IDLE unless a later start was made.
C4_CancelledStartIsNoOp ==
    \A s \in Sessions :
        sessions[s].cancelled
            => /\ sessions[s].stream # "live"
               /\ sessions[s].inCtx = "none"
               /\ sessions[s].nodes = "none"
               /\ sessions[s].sent = << >>
               /\ (mounted /\ s = Len(sessions)) => status = "idle"

\* C5: unmounting while a session is connecting or open requests the remote close
\* and releases every local resource and the handle.
C5_UnmountReleases ==
    [][(Unmount /\ \E s \in Sessions : LiveConnection(s))
        => /\ sessionPromiseRef' = 0
           /\ \A s \in Sessions :
                 /\ Released(sessions', s)
                 /\ LiveConnection(s) => CloseRequested(sessions', s)]_vars

ReportMessage == [NoMessage EXCEPT !.tool = "report"]

\* C6: a generateLearningReport tool call with arguments on an open deep-dive session
\* surfaces the arguments as the report and ends the session in COMPLETE, which it
\* keeps until a new session is started.
C6_ToolCallEndsComplete ==
    [][/\ \A s \in Sessions :
            (surface = Dive /\ mounted /\ OnMessage(s, ReportMessage))
                => learningReport' = "args" /\ status' = "complete"
       /\ (status = "complete" /\ ~StartDeepDive /\ ~RestoreFromHistory /\ mounted')
                => status' = "complete"]_vars

\* The resources the refs of the component point at are released and the handle is null.
HandleTornDown(c) ==
    /\ c.sessionPromiseRef = 0
    /\ c.mediaStreamRef # 0 => c.sessions[c.mediaStreamRef].stream = "stopped"
    /\ c.scriptProcessorRef # 0 => c.sessions[c.scriptProcessorRef].nodes = "disconnected"
    /\ c.inputAudioContextRef # 0 => c.sessions[c.inputAudioContextRef].inCtx = "closed"
    /\ c.outputAudioContextRef # 0 => c.sessions[c.outputAudioContextRef].outCtx = "closed"

\* C7: a transport error during an open session sets the error kind to
\* session_interrupted, runs the full teardown, leaves the state IDLE and starts no
\* connection.
C7_ErrorTearsDown ==
    [][\A s \in Sessions :
          (mounted /\ sessions[s].conn = "open" /\ OnError(s))
              => /\ error' = "session_interrupted"
                 /\ status' = "idle"
                 /\ HandleTornDown(Cur)'
                 /\ sessions'[s].conn = "closed"
                 /\ Len(sessions') = Len(sessions)
                 /\ \A t \in Sessions :
                       sessions'[t].conn = "connecting" => sessions[t].conn = "connecting"]_vars

\* The deep dive never commits the state 'complete', so no session starts from it.
NeverComplete == status # "complete"

C7_Witness ==
    /\ mounted /\ error = "session_interrupted" /\ status = "idle"
    /\ \E s \in Sessions : sessions[s].conn = "closed" /\ sessions[s].inCtx = "closed"

\* C8: a failed start reports an error and returns to IDLE: mic_permission when the
\* microphone is denied, session_interrupted when the connection cannot be opened;
\* a start whose microphone was denied never has a connection or an audio context.
C8_StartFailureReported ==
    [][/\ \A s \in Sessions :
            (mounted /\ MicDenied(s)) => error' = "mic_permission" /\ status' = "idle"
       /\ \A s \in Sessions :
            (mounted /\ sessions[s].conn = "connecting" /\ OnError(s))
                => error' = "session_interrupted" /\ status' = "idle"
       /\ \A s \in 1..Len(sessions') :
            sessions'[s].mic = "denied"
                => /\ sessions'[s].conn = "none"
                   /\ sessions'[s].outCtx = "none"
                   /\ sessions'[s].inCtx = "none"
                   /\ sessions'[s].stream = "none"]_vars

C8_Witness ==
    /\ mounted /\ status = "idle" /\ error = "session_interrupted"
    /\ \E s \in Sessions : sessions[s].mic = "denied"
    /\ \E s \in Sessions : sessions[s].conn = "closed" /\ sessions[s].inCtx = "none"

\* C9: on every error path of start(), the resources acquired so far are released
\* before the state returns to IDLE.
C9_StartErrorReleases ==
    [][\A s \in Sessions :
          (MicDenied(s) \/ MicGrantedContextFails(s)
              \/ (sessions[s].conn = "connecting" /\ OnError(s)))
              => Released(sessions', s)]_vars

InterruptedMessage == [NoMessage EXCEPT !.interrupted = TRUE]

\* C10: an interruption signal stops every scheduled playback segment and resets the
\* playback clock, on both surfaces.
C10_InterruptStopsPlayback ==
    [][\A s \in Sessions :
          OnMessage(s, InterruptedMessage)
              => /\ \A i \in 1..Len(sources) : sources'[i].state # "scheduled"
                 /\ nextStartTimeRef' = 0]_vars

\* Two playback segments are audible at the same time.
Overlap(a, b) == a.begin < b.begin + b.dur /\ b.begin < a.begin + a.dur

\* C11: no two scheduled playback segments of one output context overlap, also when
\* a fragment arrives while an earlier one is still being decoded.
C11_NoOverlap ==
    \A i, j \in 1..Len(sources) :
        (i # j /\ sources[i].state = "scheduled" /\ sources[j].state = "scheduled"
             /\ sources[i].ctx = sources[j].ctx)
            => ~Overlap(sources[i], sources[j])

\* A step in which onmessage runs its interrupted part: the message without audio
\* arrives, or the decode of a message with audio and the interrupted flag ends.
InterruptProcessed ==
    \/ \E s \in Sessions : \E m \in PlaybackMessages :
          m.interrupted /\ m.audio = 0 /\ OnMessage(s, m)
    \/ \E i \in 1..Len(decoding) : decoding[i].m.interrupted /\ DecodeDone(i)

\* C12: nextStartTime never decreases in an enqueue step; it decreases only when an
\* interruption is processed or a new session starts, and then it becomes exactly 0.
C12_ClockMonotone ==
    [][nextStartTimeRef' < nextStartTimeRef
          => /\ nextStartTimeRef' = 0
             /\ InterruptProcessed \/ \E s \in Sessions : MicGranted(s)]_vars

C12_Witness ==
    /\ surface = Tutor /\ Len(sessions) = 2 /\ sessions[2].conn = "connecting"
    /\ nextStartTimeRef = 0
    /\ Len(sources) = 2
    /\ sources[1].state = "stopped" /\ sources[2].state = "scheduled"

\* C13: after the live tutor has processed an interruption signal, activeHandles is
\* empty, nextStartTime is 0 and every handle that was in the set has been stopped.
C13_InterruptClears ==
    [][(surface = Tutor /\ InterruptProcessed)
          => /\ audioSourcesRef' = {}
             /\ nextStartTimeRef' = 0
             /\ \A i \in 1..Len(sources') :
                   (i \in audioSourcesRef \/ i > Len(sources))
                       => sources'[i].state # "scheduled"]_vars

C13_Witness ==
    /\ surface = Tutor /\ audioSourcesRef = {} /\ nextStartTimeRef = 0
    /\ Len(sources) = 2
    /\ \A i \in 1..Len(sources) : sources[i].state = "stopped"

\* Message m carries exactly one transcription fragment.
OneFragment(m) == m.hasInput # m.hasOutput
SpeakerOf(m) == IF m.hasInput THEN "user" ELSE "model"
TextOf(m) == IF m.hasInput THEN m.input ELSE m.output
TurnCompleteMessage == [NoMessage EXCEPT !.turnComplete = TRUE]
Trailing == conversation[Len(conversation)]

\* C14: a fragment of the speaker of the trailing turn, with no turn-complete since
\* that turn began, is concatenated to it in receipt order, so that the fragments
\* form a single turn; a following turn-complete makes that turn final.
C14_FragmentsAssembled ==
    [][\A s \in Sessions :
          /\ \A m \in TranscriptMessages :
                (mounted /\ OneFragment(m) /\ OnMessage(s, m) /\ conversation # << >>
                    /\ Trailing.speaker = SpeakerOf(m) /\ ~Trailing.isFinal)
                    => conversation' = [conversation EXCEPT
                                           ![Len(conversation)].text = @ \o TextOf(m)]
          /\ (mounted /\ OnMessage(s, TurnCompleteMessage) /\ conversation # << >>)
                => /\ Len(conversation') = Len(conversation)
                   /\ conversation'[Len(conversation)].isFinal
                   /\ conversation'[Len(conversation)].text = Trailing.text]_vars

C16_TurnCompleteCloses ==
    [][\A s \in Sessions :
          /\ (mounted /\ OnMessage(s, TurnCompleteMessage))
                => /\ Len(conversation') = Len(conversation)
                   /\ \A i \in 1..Len(conversation) : conversation'[i].isFinal
          /\ \A m \in TranscriptMessages :
                (mounted /\ OneFragment(m) /\ OnMessage(s, m) /\ conversation # << >>
                    /\ Trailing.isFinal)
                    => /\ Len(conversation') = Len(conversation) + 1
                       /\ SubSeq(conversation', 1, Len(conversation)) = conversation]_vars

\* The resource operations stop() performs when it is called in state c: the remote
\* close request, and on the deep dive the calls of handleDeepDiveSessionEnded.
StopOps(c) ==
    (IF c.sessionPromiseRef # 0 THEN {"close"} ELSE {})
    \cup (IF c.surface = Dive
          THEN (IF c.mediaStreamRef # 0 THEN {"stopTracks"} ELSE {})
               \cup (IF c.scriptProcessorRef # 0 THEN {"disconnect"} ELSE {})
               \cup (IF c.inputAudioContextRef # 0
                        /\ c.sessions[c.inputAudioContextRef].inCtx # "closed"
                     THEN {"closeInput"} ELSE {})
               \cup (IF c.outputAudioContextRef # 0
                        /\ c.sessions[c.outputAudioContextRef].outCtx # "closed"
                     THEN {"closeOutput"} ELSE {})
          ELSE {})

\* stop() of the surface, as created by the current render.
Stop(c) == IF c.surface = Tutor THEN stopSession(c) ELSE stopDeepDive(c, c.status)

\* C17: stop() called in IDLE, with no handle and nothing left to release (also after
\* an earlier session has ended), performs no resource operation and changes no state.
C17_StopWhenIdleIsNoOp ==
    (/\ mounted /\ status = "idle" /\ sessionPromiseRef = 0
     /\ \A s \in Sessions : Released(sessions, s) /\ ~LiveConnection(s))
        => StopOps(Cur) = {} /\ Stop(Cur) = Cur

\* C18: the teardown tolerates every partial set of resources and is idempotent:
\* in every state, running it leaves everything the refs hold released, and running
\* it again (a close callback after an error callback, or twice in a row) changes
\* nothing more.
C18_TeardownIdempotent ==
    \A s \in Sessions :
        LET once == onclose(Cur, s)
            failed == onerror(Cur, s)
        IN  /\ HandleTornDown(once)
            /\ onclose(once, s) = once
            /\ HandleTornDown(failed)
            /\ onclose(failed, s) = failed
            /\ \A t \in Sessions : once.sessions[t].inCtx # "invalid"

C18_Witness ==
    /\ error = "session_interrupted" /\ sessionPromiseRef = 0
    /\ \E s \in Sessions :
          /\ sessions[s].conn = "closed" /\ sessions[s].stream = "stopped"
          /\ sessions[s].outCtx = "closed" /\ sessions[s].inCtx = "none"
    /\ \E s \in Sessions :
          /\ sessions[s].conn = "closed" /\ sessions[s].inCtx = "closed"
          /\ sessions[s].nodes = "disconnected"

\* C19: a message delivered after stop() or the teardown has run, before the remote
\* close completes, changes no transcript, schedules no playback, surfaces no report
\* and changes no state.
C19_LateMessageIgnored ==
    [][\A s \in Sessions : \A m \in LateMessages :
          OnLateMessage(s, m)
              => UNCHANGED <<conversation, learningReport, status, error, decoding,
                             sources, audioSourcesRef, nextStartTimeRef, sessions>>]_vars

\* The frames handed to the connection of session s: transmitted, or waiting for its
\* connect promise.
Handed(ss, s) ==
    ss[s].sent \o [i \in 1..Len(ss[s].thens) |->
                      [from |-> ss[s].thens[i].from, n |-> ss[s].thens[i].n]]

\* C20: every frame captured in a session whose connection is open is handed to that
\* connection exactly once, behind the frames captured before it, and the frames
\* already transmitted keep their order.
C20_FramesInOrder ==
    [][\A s \in Sessions :
          /\ (sessions[s].conn = "open" /\ OnAudioProcess(s))
                => Handed(sessions', s) =
                       Append(Handed(sessions, s),
                              [from |-> s, n |-> sessions[s].captured + 1])
          /\ Len(sessions'[s].sent) >= Len(sessions[s].sent)
          /\ SubSeq(sessions'[s].sent, 1, Len(sessions[s].sent)) = sessions[s].sent]_vars

\* C21: segments are scheduled in the order their messages were received, also when
\* the decode of a later one ends first: every step that creates and starts a source
\* does so for the chunk of that output context that was received first among those
\* still waiting (a chunk left waiting is scheduled later, at a later start time).
C21_ReceiptOrder ==
    [][(\E i \in 1..Len(decoding) : DecodeDone(i))
        => \E i \in 1..Len(decoding) :
              /\ DecodeDone(i)
              /\ \A j \in 1..(i - 1) : decoding[j].ctx # decoding[i].ctx]_vars

\* C22: the history holds at most 10 entries, most recent first, and they are
\* exactly the most recently inserted items: after n insertions the n-th, the
\* (n-1)-th, ... down to the 10 most recent.
C22_HistoryCapped ==
    (mounted /\ historyKind = "array")
        => /\ Len(history) <= HistoryCap
           /\ history = SubSeq(Reverse(inserted), 1, Min(HistoryCap, Len(inserted)))

\* Stored data that is no history: text that cannot be parsed, or JSON that is not
\* an array.
CorruptKinds == {"unparseable", "object", "null"}

\* C23: when the stored history is corrupt or cannot be parsed, the history in
\* memory is an empty list, so that the list can be shown and added to.
C23_CorruptHistoryIsEmpty ==
    (mounted /\ storedKind \in CorruptKinds) => historyKind = "array" /\ history = << >>

\* The part of C23 about stored text that JSON.parse rejects.
C23_UnparseableIsEmpty ==
    (mounted /\ storedKind = "unparseable") => historyKind = "array" /\ history = << >>

\* C26: every code in the error state of the video surface has an entry, with its
\* title and message, in errorDetails.
C26_EveryCodeHasDetails ==
    surface = Dive
        => /\ analysisError # "none" => analysisError \in errorDetails
           /\ error # "none" => error \in errorDetails

\* The part of C26 about the failures of the media preparation: a message with one
\* of the phrases is given the code of that phrase, any other message the generic one.
C26_FailuresClassified ==
    [][\A i \in 1..MaxPending : \A msg \in SUBSET Phrases :
          (surface = Dive /\ AnalysisFailed(i, msg))
              => /\ msg = {"timed out"} => analysisError' = "timeout"
                 /\ msg = {"CORS"} => analysisError' = "cors"
                 /\ msg = {"extract frames"} => analysisError' = "extract_frames"
                 /\ msg = {"invalid duration"} => analysisError' = "invalid_duration"
                 /\ msg = {} => analysisError' = "generic_analysis"
                 /\ analysisError' \in errorDetails]_vars

\* t is x with blanks before and after it, and x neither starts nor ends with a blank.
CoreOf(t, x) ==
    /\ x = << >> \/ (x[1] # " " /\ x[Len(x)] # " ")
    /\ \E i \in 0..Len(t) :
          /\ i + Len(x) <= Len(t)
          /\ SubSeq(t, i + 1, i + Len(x)) = x
          /\ \A k \in (1..i) \cup ((i + Len(x) + 1)..Len(t)) : t[k] = " "

\* x and y are the same text when the case of the letters is ignored.
SameLetters(x, y) ==
    /\ Len(x) = Len(y)
    /\ \A k \in 1..Len(x) : x[k] = y[k] \/ {x[k], y[k]} = {"A", "a"}

\* The answer u matches the canonical answer a: the same text once the surrounding
\* blanks are removed and the case is ignored.
Matches(u, a) ==
    \E x, y \in Answers : CoreOf(u, x) /\ CoreOf(a, y) /\ SameLetters(x, y)

C25_EncodingError ==
    LET diff == int16 * SubSteps - inputData
    IN  diff <= SubSteps /\ -diff <= SubSteps

\* C27: a start acquires in a fixed order: the microphone stream, then the output
\* context, then the connection; the input context and the processing graph are
\* created only in the step in which the connection opens.
C27_AcquisitionOrder ==
    [][\A s \in 1..Len(sessions') :
          LET a == sessions'[s]
          IN  /\ a.outCtx # "none" => a.stream # "none"
              /\ a.conn # "none" => a.outCtx # "none"
              /\ a.inCtx # "none" => a.conn \in {"open", "closing", "closed"}
              /\ a.nodes # "none" => a.inCtx # "none"
              /\ (s <= Len(sessions) /\ sessions[s].inCtx = "none" /\ a.inCtx # "none")
                    => sessions[s].conn = "connecting" /\ a.conn \in {"open", "closing"}
              /\ (s <= Len(sessions) /\ sessions[s].nodes = "none" /\ a.nodes # "none")
                    => sessions[s].conn = "connecting" /\ a.conn \in {"open", "closing"}]_vars

\* A session has acquired everything: stream, output context, open connection, input
\* context and processing graph.
C27_Witness ==
    \E s \in Sessions :
        /\ sessions[s].stream = "live" /\ sessions[s].outCtx = "open"
        /\ sessions[s].conn = "open"
        /\ sessions[s].inCtx = "open" /\ sessions[s].nodes = "connected"

\* The local resources of every session.
ResourcesOf(ss) ==
    [s \in 1..Len(ss) |-> [stream |-> ss[s].stream, nodes |-> ss[s].nodes,
                           inCtx |-> ss[s].inCtx, outCtx |-> ss[s].outCtx]]

C29_RegisteredBeforeStart ==
    [][\A i \in 1..Len(decoding) :
          DecodeDone(i)
              => LET mid == startSource([Cur EXCEPT !.decoding = RemoveAt(@, i)],
                                        decoding[i])
                 IN  Len(mid.sources) \in mid.audioSourcesRef]_vars

\* What holds of C29: the handle is added in the step in which the playback is
\* started.  Once that step is over the source is in audioSourcesRef, unless the
\* interruption of the same message has stopped it.
C29_RegisteredWithStart ==
    [][Len(sources') > Len(sources)
        => /\ Len(sources') = Len(sources) + 1
           /\ sources'[Len(sources')].state = "scheduled"
                 => Len(sources') \in audioSourcesRef'
           /\ sources'[Len(sources')].state \in {"scheduled", "stopped"}]_vars

\* The live tutor has been torn down after a session.
TornDown ==
    /\ sessions # << >> /\ status = "idle"
    /\ HandleTornDown(Cur)
    /\ \A s \in Sessions : sessions[s].conn \in {"none", "closed"}

\* C30: on the live tutor audioSourcesRef is exactly the set of sources that are
\* scheduled or playing: a source leaves it when its 'ended' listener has run, and the
\* set is empty once the session has been torn down.
C30_ActiveHandlesExact ==
    surface = Tutor
        => /\ \A i \in 1..Len(sources) :
                 i \in audioSourcesRef <=> sources[i].state = "scheduled"
           /\ TornDown => audioSourcesRef = {}

\* The part of C30 that holds while the first session is open.
C30_ExactWhileOpen ==
    (surface = Tutor /\ Len(sessions) <= 1 /\ ~TornDown)
        => \A i \in 1..Len(sources) :
               i \in audioSourcesRef <=> sources[i].state = "scheduled"

\* Session t is being started or is connected.
Alive(ss, t) == ss[t].mic = "pending" \/ ss[t].conn \in {"connecting", "open"}

\* C31: callbacks of an earlier session never affect a later session of the surface:
\* a close or error callback of session s leaves the microphone stream, the nodes and
\* the audio contexts of every later session t as they are, keeps the handle of t and,
\* while t is being started or is connected, the state; a message of session s adds
\* nothing to the transcript once a later session is being started or is connected.
C31_EarlierCallbacksIsolated ==
    [][\A s \in Sessions : \A t \in Sessions :
          s < t
            => /\ (OnClose(s) \/ OnError(s))
                    => /\ sessions'[t].stream = sessions[t].stream
                       /\ sessions'[t].nodes = sessions[t].nodes
                       /\ sessions'[t].inCtx = sessions[t].inCtx
                       /\ sessions'[t].outCtx = sessions[t].outCtx
                       /\ sessionPromiseRef = t => sessionPromiseRef' = t
                       /\ (mounted /\ t = Len(sessions) /\ Alive(sessions, t))
                              => status' = status
               /\ \A m \in LateMessages :
                     ((OnLateMessage(s, m) \/ OnMessage(s, m)) /\ Alive(sessions, t))
                         => conversation' = conversation]_vars

\* The onmessage call suspended at position i of the decode queue of component c
\* resumes: what afterDecode makes of c.
Resumed(c, i) == afterDecode([c EXCEPT !.decoding = RemoveAt(@, i)], c.decoding[i])

\* C32: a fragment received before an interruption signal is never started after it:
\* once the live tutor has processed the signal, no onmessage call that is still
\* suspended in its decode creates a source, registers a handle or moves the clock
\* when it resumes, so that audioSourcesRef stays empty and nextStartTimeRef stays 0.
C32_NotStartedAfterInterrupt ==
    [][\A s \in Sessions :
          (surface = Tutor /\ OnMessage(s, InterruptedMessage))
              => \A i \in 1..Len(decoding') :
                    /\ Resumed(Cur', i).sources = sources'
                    /\ Resumed(Cur', i).audioSourcesRef = {}
                    /\ Resumed(Cur', i).nextStartTimeRef = 0]_vars

\* C33: when a live tutor session ends with a transcript that is not empty, the entry
\* saved to the history, in state and in localStorage, is the transcript as it stands
\* at that moment; a session that ends with an empty transcript saves nothing.
C33_OwnTranscriptSaved ==
    [][\A s \in Sessions :
          (surface = Tutor /\ mounted /\ sessionPromiseRef = s /\ (OnClose(s) \/ OnError(s)))
              => IF conversation # << >>
                 THEN /\ history' # << >>
                      /\ history'[1] = conversation
                      /\ storedHistory' = history'
                 ELSE UNCHANGED <<history, storedHistory>>]_vars

C34_ClearedStaysCleared ==
    /\ Range(history) \cap cleared = {}
    /\ Range(storedHistory) \cap cleared = {}

\* All turns of q but the trailing one.
Earlier(q) == SubSeq(q, 1, Len(q) - 1)

RECURSIVE AllText(_)
AllText(q) == IF q = << >> THEN << >> ELSE Head(q).text \o AllText(Tail(q))

\* The transcription texts message m carries: the user's, then the model's.
FragmentsOf(m) ==
    (IF m.hasInput THEN m.input ELSE << >>) \o (IF m.hasOutput THEN m.output ELSE << >>)

\* C37: every transcription fragment received in an open session is applied to the
\* transcript, on both surfaces: after the message the transcript reads as before,
\* followed by the user's text and then the model's text of the message, also when
\* one message carries both.
C37_EveryFragmentApplied ==
    [][\A s \in Sessions : \A m \in TranscriptMessages :
          (mounted /\ OnMessage(s, m))
              => AllText(conversation') = AllText(conversation) \o FragmentsOf(m)]_vars

\* What holds of C37: the deep dive applies both fragments of a message, and the
\* live tutor applies the fragment of a message that carries one.
C37_AppliedButOneOfTwo ==
    [][\A s \in Sessions : \A m \in TranscriptMessages :
          (mounted /\ OnMessage(s, m) /\ (surface = Dive \/ OneFragment(m)))
              => AllText(conversation') = AllText(conversation) \o FragmentsOf(m)]_vars
====
